---- MODULE Spec2Model ----
(***************************************************************************)
(* Order / payment pipeline of the marketplace backend:                    *)
(*   OrdersService   (src/src/modules/orders/orders.service.ts)            *)
(*   PaymentsService (src/src/modules/payments/payments.service.ts)        *)
(* Every HTTP handler is one atomic action over the document collections   *)
(* (products, orders, orderItems, payments).  Time is counted in ticks of *)
(* fifteen minutes: clock holds the age (Date.now() - createdAt) of every *)
(* PENDING payment, and a stored timestamp is recorded as set.  hist is a  *)
(* history variable: the stock before and after the latest confirmation of *)
(* an order.  The specifications of interleaved requests split a handler   *)
(* where it awaits the database or the gateway: calls holds, for every     *)
(* request in flight, the handler, its position and what it has read.      *)
(***************************************************************************)
EXTENDS Integers, Sequences, FiniteSets, TLC

VARIABLES products, orders, orderItems, payments, clock, res, hist, calls

vars == <<products, orders, orderItems, payments, clock, res, hist, calls>>

\* the document collections
db == <<products, orders, orderItems, payments>>

(* ------------------------------ bounds --------------------------------- *)
\* orders and payments of Spec
MaxOrders == 1
MaxPayments == 1
\* orders and payments of SpecPayments and SpecRefunds
MaxOrdersPay == 1
MaxPaymentsPay == 2
\* orders, and payments, of SpecStock
MaxOrdersStock == 2
\* units of every product on hand at the start
InitQty == 2
\* requests in flight at once in the specifications of interleaved requests
MaxCalls == 2
\* lines of a cart in the calculation specification
MaxLines == 2
\* entries of an order's status history after which no new status request is
\* taken, in the specification of interleaved status requests
MaxHistory == 3

(* ---------------------------- constants -------------------------------- *)
\* 30 * 60 * 1000 ms, in ticks of fifteen minutes
ThirtyMinutes == 2
\* service fee 3.5% and VAT 7.5%, in thousandths
ServiceFeeRate == 35
TaxRate == 75

NoDate == "unset"
\* new Date()
Date == "set"
NoRef == 0

OrderStatus ==
  {"PENDING", "CONFIRMED", "PROCESSING", "SHIPPED", "DELIVERED",
   "CANCELLED", "REFUNDED"}

PaymentGateway == {"paystack", "flutterwave"}

\* req.user of the callers: <<userId, role>>
Actors ==
  {<<"a1", "admin">>, <<"b1", "user">>, <<"s1", "user">>, <<"s2", "user">>}

\* the products on sale
ProductIds == {"p1", "p2"}
\* an identifier no product has
MissingProduct == "p3"
\* selling prices of p2 in the calculation specification
Prices == {0, 100, 700}

\* a schema path the Order schema does not declare reads as undefined
Undefined == "undefined"

(* --------------------------- pure helpers ------------------------------ *)
\* variant: the fraction is dropped
MathRoundDown(num, den) == num \div den

\* Math.round(num / den) for a non-negative quotient: the nearest integer,
\* a half going up.  On doubles amount * 0.035 and amount * 0.075 round to
\* the same integer as the exact quotient for every amount up to 2000000.
MathRound(num, den) == (2 * num + den) \div (2 * den)

calculateServiceFee(amount) == MathRound(amount * ServiceFeeRate, 1000)

calculateTaxes(amount) == MathRound(amount * TaxRate, 1000)

\* variant: a shipped order may still be cancelled
validTransitionsShipped(currentStatus) ==
  CASE currentStatus = "PENDING" -> {"CONFIRMED", "CANCELLED"}
    [] currentStatus = "CONFIRMED" -> {"PROCESSING", "CANCELLED"}
    [] currentStatus = "PROCESSING" -> {"SHIPPED", "CANCELLED"}
    [] currentStatus = "SHIPPED" -> {"DELIVERED", "CANCELLED"}
    [] currentStatus = "DELIVERED" -> {"REFUNDED"}
    [] currentStatus = "CANCELLED" -> {}
    [] currentStatus = "REFUNDED" -> {}

validTransitions(currentStatus) ==
  CASE currentStatus = "PENDING" -> {"CONFIRMED", "CANCELLED"}
    [] currentStatus = "CONFIRMED" -> {"PROCESSING", "CANCELLED"}
    [] currentStatus = "PROCESSING" -> {"SHIPPED", "CANCELLED"}
    [] currentStatus = "SHIPPED" -> {"DELIVERED"}
    [] currentStatus = "DELIVERED" -> {"REFUNDED"}
    [] currentStatus = "CANCELLED" -> {}
    [] currentStatus = "REFUNDED" -> {}

\* TRUE when validateStatusTransition returns, FALSE when it throws
validateStatusTransition(currentStatus, newStatus) ==
  newStatus \in validTransitions(currentStatus)

\* "true" / "false" as returned, "TypeError" when the evaluation throws
canUpdateOrderStatus(order, userId, userRole, newStatus) ==
  IF userRole = "admin" THEN "true"
  ELSE IF order.sellerId = Undefined THEN "TypeError"
  ELSE IF order.buyerId = userId /\ newStatus = "CANCELLED" THEN "true"
  ELSE IF order.sellerId = userId
          /\ newStatus \in {"CONFIRMED", "PROCESSING", "SHIPPED"} THEN "true"
  ELSE "false"

(* --------------------------- calculateOrder ---------------------------- *)
EmptyCalculation ==
  [items |-> <<>>, subtotal |-> 0, totalShippingCost |-> 0,
   totalServiceFee |-> 0, totalTaxes |-> 0, couponDiscount |-> 0,
   totalAmount |-> 0, itemCount |-> 0, sellerCount |-> 0,
   sellerIds |-> {}, unavailableItems |-> <<>>, errors |-> <<>>]

\* variant: the quantity on hand is not looked at
availableOfAnyQuantity(product, item, buyerId) ==
  ~product.sold /\ product.sellerId # buyerId

\* the availability calculateOrder gives a line: the product is not sold,
\* has the quantity of the line, and is not the buyer's own
availableOf(product, item, buyerId) ==
  IF product.sold THEN FALSE
  ELSE IF product.quantity < item.quantity THEN FALSE
  ELSE IF product.sellerId = buyerId THEN FALSE
  ELSE TRUE

\* variant: the buyer's own product is reported first
availabilityMessageOwnFirst(product, item, buyerId) ==
  IF product.sellerId = buyerId THEN "You cannot buy your own product"
  ELSE IF product.sold THEN "Product is no longer available"
  ELSE IF product.quantity < item.quantity THEN "Only N items available"
  ELSE ""

\* the reason calculateOrder gives for a line; "" when it gives none
availabilityMessageOf(product, item, buyerId) ==
  IF product.sold THEN "Product is no longer available"
  ELSE IF product.quantity < item.quantity THEN "Only N items available"
  ELSE IF product.sellerId = buyerId THEN "You cannot buy your own product"
  ELSE ""

\* one iteration of the loop of calculateOrder over a request line
calculateItem(response, item, buyerId, prods) ==
  IF item.productId \notin DOMAIN prods
  THEN [response EXCEPT
          !.errors = Append(@, <<"Product not found", item.productId>>),
          !.unavailableItems = Append(@, item.productId)]
  ELSE
    LET product == prods[item.productId]
        available == availableOf(product, item, buyerId)
        availabilityMessage == availabilityMessageOf(product, item, buyerId)
        unitPrice == product.sellingPrice
        totalPrice == unitPrice * item.quantity
        shippingCost == product.shipping * item.quantity
        itemServiceFee == calculateServiceFee(totalPrice)
        itemTaxes == calculateTaxes(totalPrice + itemServiceFee)
        itemTotal == totalPrice + shippingCost + itemServiceFee + itemTaxes
        itemData ==
          [productId |-> item.productId, unitPrice |-> unitPrice,
           quantity |-> item.quantity, totalPrice |-> totalPrice,
           shippingCost |-> shippingCost, itemServiceFee |-> itemServiceFee,
           itemTaxes |-> itemTaxes, itemTotal |-> itemTotal,
           sellerId |-> product.sellerId, available |-> available,
           availabilityMessage |-> availabilityMessage]
    IN [response EXCEPT
          !.unavailableItems =
             IF available THEN @ ELSE Append(@, item.productId),
          !.items = Append(@, itemData),
          !.sellerIds = @ \cup {product.sellerId},
          !.subtotal = IF available THEN @ + totalPrice ELSE @,
          !.totalShippingCost = IF available THEN @ + shippingCost ELSE @,
          !.totalServiceFee = IF available THEN @ + itemServiceFee ELSE @,
          !.totalTaxes = IF available THEN @ + itemTaxes ELSE @,
          !.itemCount = IF available THEN @ + item.quantity ELSE @]

RECURSIVE calculateLoop(_, _, _, _)
calculateLoop(response, items, buyerId, prods) ==
  IF items = <<>> THEN response
  ELSE calculateLoop(calculateItem(response, Head(items), buyerId, prods),
                     Tail(items), buyerId, prods)

calculateOrder(items, buyerId, prods) ==
  LET r == calculateLoop(EmptyCalculation, items, buyerId, prods)
  IN [r EXCEPT
        !.sellerCount = Cardinality(r.sellerIds),
        !.totalAmount = r.subtotal + r.totalShippingCost + r.totalServiceFee
                        + r.totalTaxes - r.couponDiscount]

(* ------------------------------- create -------------------------------- *)
\* variant: the seller is credited the full price of the line
payoutRevenueGross(item) == item.totalPrice

\* what a line adds to the revenue of its seller's payout
payoutRevenue(item) == item.totalPrice - item.itemServiceFee

RECURSIVE preparellerPayouts(_, _)
\* groups the calculated items by seller, in order of first appearance
preparellerPayouts(items, acc) ==
  IF items = <<>> THEN acc
  ELSE
    LET item == Head(items)
        known == \E i \in DOMAIN acc : acc[i].sellerId = item.sellerId
        acc1 ==
          IF known THEN acc
          ELSE Append(acc, [sellerId |-> item.sellerId, itemCount |-> 0,
                            revenue |-> 0, serviceFee |-> 0, paid |-> FALSE])
        k == CHOOSE i \in DOMAIN acc1 : acc1[i].sellerId = item.sellerId
        acc2 ==
          [acc1 EXCEPT
             ![k].itemCount = @ + item.quantity,
             ![k].revenue = @ + payoutRevenue(item),
             ![k].serviceFee = @ + item.itemServiceFee]
    IN preparellerPayouts(Tail(items), acc2)

\* variant: a request whose items are all unavailable is a validation error
createOutcomeAllUnavailable(calculation) ==
  IF Len(calculation.errors) > 0 THEN "BadRequest"
  ELSE IF Len(calculation.unavailableItems) = Len(calculation.items)
       THEN "BadRequest"
  ELSE IF Len(calculation.unavailableItems) > 0 THEN "Conflict"
  ELSE "ok"

\* "ok" or the exception create throws after the calculation
createOutcome(calculation) ==
  IF Len(calculation.errors) > 0 THEN "BadRequest"
  ELSE IF Len(calculation.unavailableItems) > 0 THEN "Conflict"
  ELSE IF Len(calculation.items) = 0 THEN "BadRequest"
  ELSE "ok"

newOrder(calculation, buyerId) ==
  [buyerId |-> buyerId, status |-> "PENDING",
   subtotal |-> calculation.subtotal,
   totalShippingCost |-> calculation.totalShippingCost,
   totalServiceFee |-> calculation.totalServiceFee,
   totalTaxes |-> calculation.totalTaxes,
   couponDiscount |-> 0,
   totalAmount |-> calculation.totalAmount,
   itemCount |-> calculation.itemCount,
   sellerCount |-> calculation.sellerCount,
   sellerIds |-> {calculation.items[i].sellerId : i \in DOMAIN calculation.items},
   sellerId |-> Undefined,
   sellerPayouts |-> preparellerPayouts(calculation.items, <<>>),
   paymentStatus |-> "PENDING", paymentReference |-> NoRef,
   paidAt |-> NoDate, confirmedAt |-> NoDate, processingAt |-> NoDate,
   shippedAt |-> NoDate, deliveredAt |-> NoDate, cancelledAt |-> NoDate,
   cancelledBy |-> "",
   statusHistory |-> <<"Order created">>]

createOrderItems(orderId, calculatedItems) ==
  [i \in DOMAIN calculatedItems |->
     LET calcItem == calculatedItems[i]
     IN [orderId |-> orderId, productId |-> calcItem.productId,
         sellerId |-> calcItem.sellerId, quantity |-> calcItem.quantity,
         unitPrice |-> calcItem.unitPrice, totalPrice |-> calcItem.totalPrice,
         shippingCost |-> calcItem.shippingCost,
         itemServiceFee |-> calcItem.itemServiceFee,
         itemTaxes |-> calcItem.itemTaxes, itemTotal |-> calcItem.itemTotal,
         sellerRevenue |-> calcItem.totalPrice - calcItem.itemServiceFee,
         itemStatus |-> "pending", available |-> calcItem.available]]

\* what the caller of an operation gets back
Result(op, user, outcome, gateway, data) ==
  [op |-> op, user |-> user, outcome |-> outcome, gateway |-> gateway,
   data |-> data]

NoData == <<>>

\* history of an order that was never confirmed
NoHist == [confirmed |-> FALSE, stock |-> <<>>, after |-> <<>>, full |-> FALSE]

\* a slot without a request in flight
Idle == [op |-> "idle"]

NoCalls == [c \in 1 .. MaxCalls |-> Idle]

Line(productId, quantity) == [productId |-> productId, quantity |-> quantity]

\* POST /orders/calculate: the caller gets the calculation back, nothing is
\* written
CalculateOrder(items, buyerId) ==
  /\ res' = Result("calculate", buyerId, "ok", FALSE,
                   [request |-> items,
                    calculation |-> calculateOrder(items, buyerId, products)])
  /\ UNCHANGED <<products, orders, orderItems, payments, clock, hist>>

\* POST /orders without a payment method
Create(items, buyerId) ==
  LET calculation == calculateOrder(items, buyerId, products)
      outcome == createOutcome(calculation)
      orderId == Len(orders) + 1
  IN /\ IF outcome = "ok"
        THEN /\ orders' = Append(orders, newOrder(calculation, buyerId))
             /\ orderItems' =
                  orderItems \o createOrderItems(orderId, calculation.items)
             /\ hist' = Append(hist, NoHist)
        ELSE UNCHANGED <<orders, orderItems, hist>>
     /\ res' = Result("create", buyerId, outcome, FALSE, [request |-> items])
     /\ UNCHANGED <<products, payments, clock>>

(* --------------------------- stock helpers ----------------------------- *)
\* the order items of an order, in insertion order
RECURSIVE itemsOfOrder(_, _)
itemsOfOrder(items, orderId) ==
  IF items = <<>> THEN <<>>
  ELSE IF Head(items).orderId = orderId
       THEN <<Head(items)>> \o itemsOfOrder(Tail(items), orderId)
       ELSE itemsOfOrder(Tail(items), orderId)

\* variant: the product is marked sold only below zero
updateProductAfterPaymentBelowZero(prods, productId, quantity) ==
  IF productId \notin DOMAIN prods THEN prods
  ELSE
    LET newQuantity == prods[productId].quantity - quantity
    IN IF newQuantity < 0
       THEN [prods EXCEPT ![productId].sold = TRUE, ![productId].quantity = 0]
       ELSE [prods EXCEPT ![productId].quantity = @ - quantity]

updateProductAfterPayment(prods, productId, quantity) ==
  IF productId \notin DOMAIN prods THEN prods
  ELSE
    LET newQuantity == prods[productId].quantity - quantity
    IN IF newQuantity <= 0
       THEN [prods EXCEPT ![productId].sold = TRUE, ![productId].quantity = 0]
       ELSE [prods EXCEPT ![productId].quantity = @ - quantity]

RECURSIVE updateProductsAfterPayment(_, _)
\* the loop of confirmPayment over the order items
updateProductsAfterPayment(prods, items) ==
  IF items = <<>> THEN prods
  ELSE updateProductsAfterPayment(
         updateProductAfterPayment(prods, Head(items).productId,
                                   Head(items).quantity),
         Tail(items))

RECURSIVE restoreProductQuantityKeepSold(_, _)
\* variant: the quantity comes back, the sold flag stays
restoreProductQuantityKeepSold(prods, items) ==
  IF items = <<>> THEN prods
  ELSE
    LET item == Head(items)
        prods1 ==
          IF item.productId \notin DOMAIN prods THEN prods
          ELSE [prods EXCEPT ![item.productId].quantity = @ + item.quantity]
    IN restoreProductQuantityKeepSold(prods1, Tail(items))

RECURSIVE restoreProductQuantity(_, _)
restoreProductQuantity(prods, items) ==
  IF items = <<>> THEN prods
  ELSE
    LET item == Head(items)
        prods1 ==
          IF item.productId \notin DOMAIN prods THEN prods
          ELSE [prods EXCEPT ![item.productId].quantity = @ + item.quantity,
                             ![item.productId].sold = FALSE]
    IN restoreProductQuantity(prods1, Tail(items))

setItemStatus(items, orderId, itemStatus) ==
  [i \in DOMAIN items |->
     IF items[i].orderId = orderId
     THEN [items[i] EXCEPT !.itemStatus = itemStatus]
     ELSE items[i]]

(* ----------------------------- updateStatus ---------------------------- *)
\* "ok" or the exception updateStatus throws for an existing order
updateStatusOutcome(order, userId, userRole, newStatus) ==
  LET canUpdate == canUpdateOrderStatus(order, userId, userRole, newStatus)
  IN IF canUpdate = "TypeError" THEN "BadRequest"
     ELSE IF canUpdate = "false" THEN "Forbidden"
     ELSE IF ~validateStatusTransition(order.status, newStatus)
          THEN "BadRequest"
     ELSE "ok"

\* variant: the history is written anew with the latest entry
updatedOrderRewrites(order, userId, newStatus) ==
  [order EXCEPT !.status = newStatus,
                !.statusHistory = <<"Status changed to " \o newStatus>>]

\* the order document as saved by a successful updateStatus
updatedOrder(order, userId, newStatus) ==
  LET o1 == [order EXCEPT !.status = newStatus]
      o2 ==
        CASE newStatus = "CONFIRMED" -> [o1 EXCEPT !.confirmedAt = Date]
          [] newStatus = "PROCESSING" -> [o1 EXCEPT !.processingAt = Date]
          [] newStatus = "SHIPPED" -> [o1 EXCEPT !.shippedAt = Date]
          [] newStatus = "DELIVERED" -> [o1 EXCEPT !.deliveredAt = Date]
          [] newStatus = "CANCELLED" ->
               [o1 EXCEPT !.cancelledAt = Date, !.cancelledBy = userId]
          [] OTHER -> o1
  IN [o2 EXCEPT !.statusHistory = Append(@, "Status changed to " \o newStatus)]

\* body of updateStatus, also entered from cancelOrder
doUpdateStatus(op, orderId, userId, userRole, newStatus) ==
  IF orderId \notin DOMAIN orders
  THEN /\ res' = Result(op, userId, "NotFound", FALSE, NoData)
       /\ UNCHANGED <<db, clock, hist>>
  ELSE
    LET order == orders[orderId]
        outcome == updateStatusOutcome(order, userId, userRole, newStatus)
    IN /\ res' = Result(op, userId, outcome, FALSE, NoData)
       /\ UNCHANGED <<payments, clock, hist>>
       /\ IF outcome = "ok"
          THEN /\ orders' =
                    [orders EXCEPT
                       ![orderId] = updatedOrder(order, userId, newStatus)]
               /\ IF newStatus = "CANCELLED"
                  THEN /\ products' =
                            restoreProductQuantity(
                              products, itemsOfOrder(orderItems, orderId))
                       /\ orderItems' =
                            setItemStatus(orderItems, orderId, "cancelled")
                  ELSE UNCHANGED <<products, orderItems>>
          ELSE UNCHANGED <<products, orders, orderItems>>

\* PATCH /orders/:id/status
UpdateStatus(orderId, userId, userRole, newStatus) ==
  doUpdateStatus("updateStatus", orderId, userId, userRole, newStatus)

\* POST /orders/:id/cancel
CancelOrder(orderId, userId) ==
  IF orderId \notin DOMAIN orders
  THEN /\ res' = Result("cancelOrder", userId, "NotFound", FALSE, NoData)
       /\ UNCHANGED <<db, clock, hist>>
  ELSE
    LET order == orders[orderId]
        isBuyer == order.buyerId = userId
        isSeller == userId \in order.sellerIds
    IN IF ~isBuyer /\ ~isSeller
       THEN /\ res' = Result("cancelOrder", userId, "Forbidden", FALSE, NoData)
            /\ UNCHANGED <<db, clock, hist>>
       ELSE IF order.status \in {"DELIVERED", "CANCELLED", "REFUNDED"}
       THEN /\ res' = Result("cancelOrder", userId, "BadRequest", FALSE, NoData)
            /\ UNCHANGED <<db, clock, hist>>
       ELSE doUpdateStatus("cancelOrder", orderId, userId, "user", "CANCELLED")

(* ---------------------------- confirmPayment --------------------------- *)
\* variant: a payment marks the order CONFIRMED whatever its status
confirmedOrderAlways(order, reference) ==
  [order EXCEPT !.paymentStatus = "COMPLETED", !.paidAt = Date,
                !.paymentReference = reference,
                !.status = "CONFIRMED", !.confirmedAt = Date,
                !.statusHistory = Append(@, "Payment confirmed")]

\* the order document as saved by confirmPayment
confirmedOrder(order, reference) ==
  LET o1 == [order EXCEPT !.paymentStatus = "COMPLETED", !.paidAt = Date,
                          !.paymentReference = reference]
      o2 == IF order.status = "PENDING"
            THEN [o1 EXCEPT !.status = "CONFIRMED", !.confirmedAt = Date]
            ELSE o1
  IN [o2 EXCEPT !.statusHistory = Append(@, "Payment confirmed")]

\* TRUE when every item of the list takes its whole quantity from the stock
RECURSIVE takesInFull(_, _)
takesInFull(prods, items) ==
  IF items = <<>> THEN TRUE
  ELSE /\ prods[Head(items).productId].quantity >= Head(items).quantity
       /\ takesInFull(
            updateProductAfterPayment(prods, Head(items).productId,
                                      Head(items).quantity),
            Tail(items))

\* confirmPayment as called by processPaymentVerification
confirmPayment(orderId, reference) ==
  LET items == itemsOfOrder(orderItems, orderId)
  IN /\ orders' =
          [orders EXCEPT ![orderId] = confirmedOrder(@, reference)]
     /\ orderItems' = setItemStatus(orderItems, orderId, "confirmed")
     /\ products' = updateProductsAfterPayment(products, items)
     /\ hist' =
          [hist EXCEPT
             ![orderId] =
                [confirmed |-> TRUE,
                 stock |-> [p \in ProductIds |-> products[p].quantity],
                 after |-> [p \in ProductIds |-> products'[p].quantity],
                 full |-> takesInFull(products, items)]]

(* -------------------------- initializePayment -------------------------- *)
\* the ages of the PENDING payments of pays; a new payment has age 0
agesOf(pays) ==
  [i \in {j \in DOMAIN pays : pays[j].status = "PENDING"} |->
     IF i \in DOMAIN clock THEN clock[i] ELSE 0]

\* variant: the lookup of a pending payment finds nothing
existingPendingNone(orderId) == NoRef

\* findOne({ orderId, status: PENDING }): NoRef when there is none
existingPending(orderId) ==
  LET found == {i \in DOMAIN payments :
                  payments[i].orderId = orderId /\ payments[i].status = "PENDING"}
  IN IF found = {} THEN NoRef
     ELSE CHOOSE i \in found : \A j \in found : i <= j

\* variant: a pending payment is kept for fifteen minutes only
stillValidFifteen(age) == age < ThirtyMinutes - 1

\* createdAt > Date.now() - 30 minutes
stillValid(age) == age < ThirtyMinutes

initData(payment) ==
  [reference |-> payment.reference,
   authorizationUrl |-> payment.authorizationUrl,
   orderId |-> payment.orderId, amount |-> payment.amount,
   currency |-> payment.currency]

newPayment(reference, orderId, order) ==
  [reference |-> reference, orderId |-> orderId, userId |-> order.buyerId,
   gateway |-> "paystack", status |-> "PENDING",
   amount |-> order.totalAmount, currency |-> "NGN",
   authorizationUrl |-> <<"authorization_url", reference>>,
   refunded |-> FALSE, failureReason |-> "",
   gatewayResponse |-> ""]

expirePayment(pays, i) ==
  [pays EXCEPT ![i].status = "FAILED", ![i].failureReason = "Payment expired"]

\* an operation that throws before it writes anything
fail(op, user, outcome, gateway) ==
  /\ res' = Result(op, user, outcome, gateway, NoData)
  /\ UNCHANGED <<db, clock, hist>>

\* POST /payments/initialize; gatewayOk is the gateway's answer if it is asked
InitializePayment(orderId, userId, gateway, gatewayOk) ==
  IF orderId \notin DOMAIN orders
  THEN fail("initializePayment", userId, "NotFound", FALSE)
  ELSE
    LET order == orders[orderId]
        existing == existingPending(orderId)
        reference == Len(payments) + 1
    IN IF order.buyerId # userId
       THEN fail("initializePayment", userId, "BadRequest", FALSE)
       ELSE IF order.paymentStatus = "COMPLETED"
       THEN fail("initializePayment", userId, "Conflict", FALSE)
       ELSE IF existing # NoRef /\ stillValid(clock[existing])
       THEN /\ res' = Result("initializePayment", userId, "ok", FALSE,
                             initData(payments[existing]))
            /\ UNCHANGED <<db, clock, hist>>
       ELSE
         LET pays1 == IF existing # NoRef
                      THEN expirePayment(payments, existing)
                      ELSE payments
         IN /\ UNCHANGED <<products, orders, orderItems, hist>>
            /\ IF gateway # "paystack"
               THEN /\ payments' = pays1
                    /\ res' = Result("initializePayment", userId,
                                     "BadRequest", FALSE, NoData)
               ELSE IF ~gatewayOk
               THEN /\ payments' = pays1
                    /\ res' = Result("initializePayment", userId,
                                     "BadRequest", TRUE, NoData)
               ELSE /\ payments' =
                         Append(pays1,
                                newPayment(reference, orderId, order))
                    /\ res' = Result("initializePayment", userId, "ok", TRUE,
                                     initData(newPayment(reference, orderId,
                                                         order)))
            /\ clock' = agesOf(payments')

(* ------------------------ POST /orders (controller) -------------------- *)
\* "none" stands for a request without paymentMethod
PaymentMethods == {"none", "paystack", "flutterwave", "stripe"}

\* variant: every method is sent to PayStack
mapPaymentMethodToGatewayPaystack(method) == "paystack"

\* the mapping table of the controller
mapPaymentMethodToGateway(method) ==
  CASE method = "paystack" -> "paystack"
    [] method = "flutterwave" -> "flutterwave"
    [] method = "stripe" -> "stripe"
    [] OTHER -> "paystack"

\* the body of the answer: the order, and the payment block when there is one
orderOnly(orderId, items) == [request |-> items, order |-> orderId]

orderAndPayment(orderId, items, payment, paymentMethod) ==
  [request |-> items, order |-> orderId,
   payment |-> [reference |-> payment.reference,
                authorizationUrl |-> payment.authorizationUrl,
                amount |-> payment.amount, currency |-> payment.currency,
                paymentMethod |-> paymentMethod]]

\* OrdersController.create: the order is created, then the payment is
\* initialised when a payment method came with the request; an exception of
\* the initialisation is caught and the order alone is returned
CreateOrder(items, buyerId, paymentMethod, gatewayOk) ==
  LET calculation == calculateOrder(items, buyerId, products)
      outcome == createOutcome(calculation)
      orderId == Len(orders) + 1
      order == newOrder(calculation, buyerId)
      gateway == mapPaymentMethodToGateway(paymentMethod)
      existing == existingPending(orderId)
      reference == Len(payments) + 1
      payment == newPayment(reference, orderId, order)
  IN /\ UNCHANGED products
     /\ IF outcome # "ok"
        THEN /\ res' = Result("createOrder", buyerId, outcome, FALSE,
                              [request |-> items])
             /\ UNCHANGED <<orders, orderItems, hist, payments, clock>>
        ELSE
          /\ orders' = Append(orders, order)
          /\ orderItems' =
               orderItems \o createOrderItems(orderId, calculation.items)
          /\ hist' = Append(hist, NoHist)
          /\ IF paymentMethod = "none"
             THEN /\ res' = Result("createOrder", buyerId, "ok", FALSE,
                                   orderOnly(orderId, items))
                  /\ UNCHANGED <<payments, clock>>
             ELSE IF order.buyerId # buyerId \/ order.paymentStatus = "COMPLETED"
             THEN /\ res' = Result("createOrder", buyerId, "ok", FALSE,
                                   orderOnly(orderId, items))
                  /\ UNCHANGED <<payments, clock>>
             ELSE IF existing # NoRef /\ stillValid(clock[existing])
             THEN /\ res' = Result("createOrder", buyerId, "ok", FALSE,
                                   orderAndPayment(orderId, items,
                                                   payments[existing],
                                                   paymentMethod))
                  /\ UNCHANGED <<payments, clock>>
             ELSE
               LET pays1 == IF existing # NoRef
                            THEN expirePayment(payments, existing)
                            ELSE payments
               IN /\ IF gateway # "paystack"
                     THEN /\ payments' = pays1
                          /\ res' = Result("createOrder", buyerId, "ok", FALSE,
                                           orderOnly(orderId, items))
                     ELSE IF ~gatewayOk
                     THEN /\ payments' = pays1
                          /\ res' = Result("createOrder", buyerId, "ok", TRUE,
                                           orderOnly(orderId, items))
                     ELSE /\ payments' = Append(pays1, payment)
                          /\ res' = Result("createOrder", buyerId, "ok", TRUE,
                                           orderAndPayment(orderId, items,
                                                           payment,
                                                           paymentMethod))
                  /\ clock' = agesOf(payments')

(* ---------------------- verification and webhooks ---------------------- *)
verifyData(payment) ==
  [reference |-> payment.reference, status |-> payment.status,
   amount |-> payment.amount, currency |-> payment.currency,
   gatewayResponse |-> payment.gatewayResponse, orderId |-> payment.orderId]

completedPayment(payment) ==
  [payment EXCEPT !.status = "COMPLETED", !.gatewayResponse = "Successful"]

failedPayment(payment) ==
  [payment EXCEPT !.status = "FAILED", !.gatewayResponse = "Declined",
                  !.failureReason = "gateway"]

\* processPaymentVerification for payment i
processPaymentVerification(i, isSuccessful) ==
  /\ IF isSuccessful
     THEN /\ payments' = [payments EXCEPT ![i] = completedPayment(@)]
          /\ confirmPayment(payments[i].orderId, payments[i].reference)
     ELSE /\ payments' = [payments EXCEPT ![i] = failedPayment(@)]
          /\ UNCHANGED <<products, orders, orderItems, hist>>
  /\ clock' = agesOf(payments')

\* variant: the gateway is asked whatever the stored status
alreadyVerifiedNever(payment) == FALSE

\* TRUE when verifyPayment returns the stored result without asking
alreadyVerified(payment) == payment.status = "COMPLETED"

\* POST /payments/verify; answer is what the gateway says if it is asked
VerifyPayment(reference, answer) ==
  IF reference \notin DOMAIN payments
  THEN fail("verifyPayment", "", "NotFound", FALSE)
  ELSE
    LET payment == payments[reference]
    IN IF alreadyVerified(payment)
       THEN /\ res' = Result("verifyPayment", "", "ok", FALSE,
                             verifyData(payment))
            /\ UNCHANGED <<db, clock, hist>>
       ELSE IF answer = "error"
       THEN fail("verifyPayment", "", "BadRequest", TRUE)
       ELSE /\ processPaymentVerification(reference, answer = "success")
            /\ res' = Result("verifyPayment", "", "ok", TRUE,
                             verifyData(payments'[reference]))

WebhookEvents == {"charge.success", "charge.failed", "transfer.success"}

\* POST /payments/webhook/paystack; a charge.success event carries
\* data.status = 'success'
HandlePayStackWebhook(event, reference, isValidSignature) ==
  IF ~isValidSignature
  THEN fail("webhook", "", "BadRequest", FALSE)
  ELSE
    /\ res' = Result("webhook", "", "ok", FALSE, NoData)
    /\ IF /\ event \in {"charge.success", "charge.failed"}
          /\ reference \in DOMAIN payments
          /\ payments[reference].status = "PENDING"
       THEN processPaymentVerification(reference, event = "charge.success")
       ELSE UNCHANGED <<db, clock, hist>>

\* a request body: the payload and whether the text is the compact form
\* JSON.stringify writes (FALSE: same payload, other white space)
RawBodies ==
  [event : WebhookEvents, reference : 1 .. MaxPaymentsPay, compact : BOOLEAN]

\* JSON.parse(rawBody.toString())
JSONparse(rawBody) ==
  [event |-> rawBody.event, reference |-> rawBody.reference]

\* JSON.stringify(webhookData): always the compact text
JSONstringify(webhookData) ==
  [event |-> webhookData.event, reference |-> webhookData.reference,
   compact |-> TRUE]

\* createHmac('sha512', secretKey).update(payload).digest('hex'): one digest
\* for every text
hmac(payload) == <<"sha512", payload>>

\* PayStackService.verifyWebhookSignature; handlePayStackWebhook passes the
\* parsed body written out again as payload
verifyWebhookSignature(payload, signature) == hmac(payload) = signature

\* no x-paystack-signature header
NoSignature == <<>>

\* the x-paystack-signature headers tried: none, digests under a key that is
\* not the gateway secret, and the digests the gateway computed for bodies
\* it sent
Signatures ==
  {NoSignature} \cup {<<"forged", rawBody>> : rawBody \in RawBodies}
  \cup {hmac(rawBody) : rawBody \in RawBodies}

\* POST /payments/webhook/paystack as the controller receives it
paystackWebhook(rawBody, signature) ==
  IF signature = NoSignature
  THEN fail("webhook", "", "BadRequest", FALSE)
  ELSE
    LET webhookData == JSONparse(rawBody)
    IN HandlePayStackWebhook(
         webhookData.event, webhookData.reference,
         verifyWebhookSignature(JSONstringify(webhookData), signature))

\* POST /payments/:id/refund (administrators only)
RefundPayment(paymentId, gatewayOk) ==
  IF paymentId \notin DOMAIN payments
  THEN fail("refundPayment", "a1", "NotFound", FALSE)
  ELSE
    LET payment == payments[paymentId]
    IN IF payment.status # "COMPLETED"
       THEN fail("refundPayment", "a1", "BadRequest", FALSE)
       ELSE IF payment.refunded
       THEN fail("refundPayment", "a1", "Conflict", FALSE)
       ELSE IF ~gatewayOk
       THEN fail("refundPayment", "a1", "BadRequest", TRUE)
       ELSE /\ payments' = [payments EXCEPT ![paymentId].refunded = TRUE,
                                            ![paymentId].status = "REFUNDED"]
            /\ res' = Result("refundPayment", "a1", "ok", TRUE, NoData)
            /\ UNCHANGED <<products, orders, orderItems, clock, hist>>

(* ------------------------------- time ---------------------------------- *)
\* fifteen minutes pass
Tick ==
  /\ \E i \in DOMAIN clock : clock[i] < ThirtyMinutes
  /\ clock' =
       [i \in DOMAIN clock |->
          IF clock[i] < ThirtyMinutes THEN clock[i] + 1 ELSE clock[i]]
  /\ res' = Result("tick", "", "ok", FALSE, NoData)
  /\ UNCHANGED <<db, hist>>

(* --------------- verification and webhook, step by step ---------------- *)
\* the request of slot c is over
done(c) == calls' = [calls EXCEPT ![c] = Idle]

\* verifyPayment up to the question to the gateway: the payment is read and
\* a COMPLETED one is answered at once
VerifyPaymentRead(c, reference) ==
  /\ calls[c].op = "idle"
  /\ IF reference \notin DOMAIN payments
     THEN fail("verifyPayment", "", "NotFound", FALSE) /\ UNCHANGED calls
     ELSE IF alreadyVerified(payments[reference])
     THEN /\ res' = Result("verifyPayment", "", "ok", FALSE,
                           verifyData(payments[reference]))
          /\ UNCHANGED <<db, clock, hist, calls>>
     ELSE /\ calls' = [calls EXCEPT
                         ![c] = [op |-> "verifyPayment", pc |-> "gateway",
                                 payment |-> reference]]
          /\ UNCHANGED <<db, clock, hist, res>>

\* handleSuccessfulPayment up to processPaymentVerification: the payment is
\* read and only a PENDING one goes on
HandleSuccessfulPaymentRead(c, reference) ==
  /\ calls[c].op = "idle"
  /\ IF reference \in DOMAIN payments /\ payments[reference].status = "PENDING"
     THEN /\ calls' = [calls EXCEPT
                         ![c] = [op |-> "webhook", pc |-> "process",
                                 payment |-> reference]]
          /\ UNCHANGED <<db, clock, hist, res>>
     ELSE /\ res' = Result("webhook", "", "ok", FALSE, NoData)
          /\ UNCHANGED <<db, clock, hist, calls>>

\* processPaymentVerification for a success, up to the loop of confirmPayment
\* over the items: the payment is COMPLETED, the order is read and saved,
\* its items are 'confirmed'
startConfirmation(c) ==
  LET i == calls[c].payment
      orderId == payments[i].orderId
  IN /\ payments' = [payments EXCEPT ![i] = completedPayment(@)]
     /\ clock' = agesOf(payments')
     /\ orders' = [orders EXCEPT
                     ![orderId] = confirmedOrder(@, payments[i].reference)]
     /\ orderItems' = setItemStatus(orderItems, orderId, "confirmed")
     /\ hist' = [hist EXCEPT ![orderId].confirmed = TRUE]
     /\ calls' = [calls EXCEPT
                    ![c] = [op |-> calls[c].op, pc |-> "stock",
                            payment |-> i,
                            items |-> itemsOfOrder(orderItems, orderId)]]
     /\ UNCHANGED <<products, res>>

\* the gateway answers the verifyPayment of slot c
VerifyPaymentAnswer(c, answer) ==
  /\ calls[c].op = "verifyPayment" /\ calls[c].pc = "gateway"
  /\ IF answer = "error"
     THEN fail("verifyPayment", "", "BadRequest", TRUE) /\ done(c)
     ELSE IF answer = "failed"
     THEN /\ payments' = [payments EXCEPT ![calls[c].payment] = failedPayment(@)]
          /\ clock' = agesOf(payments')
          /\ res' = Result("verifyPayment", "", "ok", TRUE,
                           verifyData(payments'[calls[c].payment]))
          /\ done(c)
          /\ UNCHANGED <<products, orders, orderItems, hist>>
     ELSE startConfirmation(c)

\* the webhook of slot c goes on to processPaymentVerification
HandleSuccessfulPaymentProcess(c) ==
  /\ calls[c].op = "webhook" /\ calls[c].pc = "process"
  /\ startConfirmation(c)

\* updateProductAfterPayment, first half: the product of the next item is
\* read and the new quantity is worked out
UpdateProductRead(c) ==
  /\ calls[c].op \in {"verifyPayment", "webhook"} /\ calls[c].pc = "stock"
  /\ IF calls[c].items = <<>>
     THEN /\ res' = IF calls[c].op = "webhook"
                    THEN Result("webhook", "", "ok", FALSE, NoData)
                    ELSE Result("verifyPayment", "", "ok", TRUE,
                                verifyData(payments[calls[c].payment]))
          /\ done(c)
     ELSE LET item == Head(calls[c].items)
          IN /\ calls' = [calls EXCEPT
                            ![c] = [op |-> calls[c].op, pc |-> "stockWrite",
                                    payment |-> calls[c].payment,
                                    items |-> calls[c].items,
                                    newQuantity |->
                                      products[item.productId].quantity
                                        - item.quantity]]
             /\ UNCHANGED res
  /\ UNCHANGED <<db, clock, hist>>

\* updateProductAfterPayment, second half: findByIdAndUpdate with $inc, or
\* with sold and quantity 0 when the new quantity was zero or below
UpdateProductWrite(c) ==
  /\ calls[c].op \in {"verifyPayment", "webhook"}
  /\ calls[c].pc = "stockWrite"
  /\ LET item == Head(calls[c].items)
     IN products' =
          IF calls[c].newQuantity <= 0
          THEN [products EXCEPT ![item.productId].sold = TRUE,
                                ![item.productId].quantity = 0]
          ELSE [products EXCEPT ![item.productId].quantity = @ - item.quantity]
  /\ calls' = [calls EXCEPT
                 ![c] = [op |-> calls[c].op, pc |-> "stock",
                         payment |-> calls[c].payment,
                         items |-> Tail(calls[c].items)]]
  /\ UNCHANGED <<orders, orderItems, payments, clock, res, hist>>

(* ---------------------- updateStatus, step by step --------------------- *)
\* updateStatus up to its writes: the order is read, the permission and the
\* transition are checked on the document that was read
UpdateStatusRead(c, orderId, userId, userRole, newStatus) ==
  /\ calls[c].op = "idle"
  /\ IF orderId \notin DOMAIN orders
     THEN fail("updateStatus", userId, "NotFound", FALSE) /\ UNCHANGED calls
     ELSE
       LET outcome ==
             updateStatusOutcome(orders[orderId], userId, userRole, newStatus)
       IN IF outcome # "ok"
          THEN fail("updateStatus", userId, outcome, FALSE) /\ UNCHANGED calls
          ELSE /\ calls' =
                    [calls EXCEPT
                       ![c] = [op |-> "updateStatus",
                               pc |-> IF newStatus = "CANCELLED"
                                      THEN "cancel" ELSE "save",
                               orderId |-> orderId, userId |-> userId,
                               newStatus |-> newStatus]]
               /\ UNCHANGED <<db, clock, hist, res>>

\* the CANCELLED case: the quantities come back and the items are
\* 'cancelled' before the order is saved
UpdateStatusCancel(c) ==
  /\ calls[c].op = "updateStatus" /\ calls[c].pc = "cancel"
  /\ products' =
       restoreProductQuantity(products,
                              itemsOfOrder(orderItems, calls[c].orderId))
  /\ orderItems' = setItemStatus(orderItems, calls[c].orderId, "cancelled")
  /\ calls' = [calls EXCEPT ![c].pc = "save"]
  /\ UNCHANGED <<orders, payments, clock, hist, res>>

\* order.save(): the paths the request modified are written onto the stored
\* document, the history entry is pushed onto the stored history
UpdateStatusSave(c) ==
  /\ calls[c].op = "updateStatus" /\ calls[c].pc = "save"
  /\ orders' =
       [orders EXCEPT
          ![calls[c].orderId] =
             updatedOrder(@, calls[c].userId, calls[c].newStatus)]
  /\ res' = Result("updateStatus", calls[c].userId, "ok", FALSE, NoData)
  /\ done(c)
  /\ UNCHANGED <<products, orderItems, payments, clock, hist>>

(* -------------------- initializePayment, step by step ------------------ *)
\* initializePayment up to the call of the gateway: the order is checked, a
\* PENDING payment of the order is looked up, a valid one is returned and an
\* expired one is marked FAILED
InitializePaymentRead(c, orderId, userId) ==
  /\ calls[c].op = "idle"
  /\ IF orderId \notin DOMAIN orders
     THEN fail("initializePayment", userId, "NotFound", FALSE)
          /\ UNCHANGED calls
     ELSE
       LET order == orders[orderId]
           existing == existingPending(orderId)
       IN IF order.buyerId # userId
          THEN fail("initializePayment", userId, "BadRequest", FALSE)
               /\ UNCHANGED calls
          ELSE IF order.paymentStatus = "COMPLETED"
          THEN fail("initializePayment", userId, "Conflict", FALSE)
               /\ UNCHANGED calls
          ELSE IF existing # NoRef /\ stillValid(clock[existing])
          THEN /\ res' = Result("initializePayment", userId, "ok", FALSE,
                                initData(payments[existing]))
               /\ UNCHANGED <<db, clock, hist, calls>>
          ELSE /\ payments' = IF existing # NoRef
                              THEN expirePayment(payments, existing)
                              ELSE payments
               /\ clock' = agesOf(payments')
               /\ calls' =
                    [calls EXCEPT
                       ![c] = [op |-> "initializePayment", pc |-> "gateway",
                               orderId |-> orderId, userId |-> userId]]
               /\ UNCHANGED <<products, orders, orderItems, hist, res>>

\* the gateway has answered: on success the Payment is constructed PENDING
\* and saved
InitializePaymentSave(c, gatewayOk) ==
  /\ calls[c].op = "initializePayment" /\ calls[c].pc = "gateway"
  /\ done(c)
  /\ UNCHANGED <<products, orders, orderItems, hist>>
  /\ IF ~gatewayOk
     THEN /\ res' = Result("initializePayment", calls[c].userId,
                           "BadRequest", TRUE, NoData)
          /\ UNCHANGED <<payments, clock>>
     ELSE
       LET payment == newPayment(Len(payments) + 1, calls[c].orderId,
                                 orders[calls[c].orderId])
       IN /\ payments' = Append(payments, payment)
          /\ clock' = agesOf(payments')
          /\ res' = Result("initializePayment", calls[c].userId, "ok", TRUE,
                           initData(payment))

(* ------------------------------- init ---------------------------------- *)
InitProducts ==
  [p \in ProductIds |->
     IF p = "p1"
     THEN [sellerId |-> "s1", sellingPrice |-> 25000, shipping |-> 1250,
           quantity |-> InitQty, sold |-> FALSE]
     ELSE [sellerId |-> "s2", sellingPrice |-> 700, shipping |-> 0,
           quantity |-> InitQty, sold |-> FALSE]]

Init ==
  /\ products = InitProducts
  /\ orders = <<>>
  /\ orderItems = <<>>
  /\ payments = <<>>
  /\ clock = <<>>
  /\ res = Result("init", "", "ok", FALSE, NoData)
  /\ hist = <<>>
  /\ calls = NoCalls

\* a catalogue as sellers and earlier payments can leave it: a product is
\* sold exactly when its last unit was paid for (updateProductAfterPayment),
\* and prices are whole amounts
ProductStates ==
  {[sold |-> FALSE, quantity |-> q] : q \in 0 .. InitQty}
    \cup {[sold |-> TRUE, quantity |-> 0]}

InitCart ==
  /\ products \in
       {[p \in ProductIds |->
           [InitProducts[p] EXCEPT
              !.sold = st[p].sold, !.quantity = st[p].quantity,
              !.sellingPrice = IF p = "p2" THEN price ELSE @]] :
          st \in [ProductIds -> ProductStates], price \in Prices}
  /\ orders = <<>>
  /\ orderItems = <<>>
  /\ payments = <<>>
  /\ clock = <<>>
  /\ res = Result("init", "", "ok", FALSE, NoData)
  /\ hist = <<>>
  /\ calls = NoCalls

\* the collections stay within the bounds
Bounded(maxOrders, maxPayments) ==
  Len(orders') <= maxOrders /\ Len(payments') <= maxPayments

(* order life cycle: the administrator sets every target, every actor *)
(* cancels, one cart, payments that succeed                           *)
Next ==
  /\ UNCHANGED calls
  /\ \/ Create(<<Line("p1", 1)>>, "b1")
     \/ \E orderId \in 1 .. MaxOrders, newStatus \in OrderStatus :
          UpdateStatus(orderId, "a1", "admin", newStatus)
     \/ \E orderId \in 1 .. MaxOrders, actor \in Actors :
          CancelOrder(orderId, actor[1])
     \/ \E orderId \in 1 .. MaxOrders :
          InitializePayment(orderId, "b1", "paystack", TRUE)
     \/ \E reference \in 1 .. MaxPayments : VerifyPayment(reference, "success")
     \/ \E reference \in 1 .. MaxPayments :
          HandlePayStackWebhook("charge.success", reference, TRUE)
  /\ Bounded(MaxOrders, MaxPayments)

Spec == Init /\ [][Next]_vars

(* roles: every actor asks for every target *)
NextRoles ==
  /\ UNCHANGED calls
  /\ \/ Create(<<Line("p1", 1)>>, "b1")
     \/ \E orderId \in 1 .. MaxOrders, actor \in Actors,
           newStatus \in OrderStatus :
          UpdateStatus(orderId, actor[1], actor[2], newStatus)
     \/ \E orderId \in 1 .. MaxOrders, actor \in Actors :
          CancelOrder(orderId, actor[1])
     \/ \E orderId \in 1 .. MaxOrders :
          InitializePayment(orderId, "b1", "paystack", TRUE)
     \/ \E reference \in 1 .. MaxPayments : VerifyPayment(reference, "success")
  /\ Bounded(MaxOrders, MaxPayments)

SpecRoles == Init /\ [][NextRoles]_vars

(* payments: every answer of the gateway, time, a cart of two lines *)
NextPayments ==
  /\ UNCHANGED calls
  /\ \/ Create(<<Line("p1", 1), Line("p2", 2)>>, "b1")
     \/ \E orderId \in 1 .. MaxOrdersPay, userId \in {"b1", "s1"},
           gateway \in PaymentGateway, gatewayOk \in BOOLEAN :
          InitializePayment(orderId, userId, gateway, gatewayOk)
     \/ \E reference \in 1 .. MaxPaymentsPay,
           answer \in {"success", "failed", "error"} :
          VerifyPayment(reference, answer)
     \/ \E event \in WebhookEvents, reference \in 1 .. MaxPaymentsPay,
           isValidSignature \in BOOLEAN :
          HandlePayStackWebhook(event, reference, isValidSignature)
     \/ Tick
  /\ Bounded(MaxOrdersPay, MaxPaymentsPay)

SpecPayments == Init /\ [][NextPayments]_vars

(* payments and refunds *)
NextRefunds ==
  /\ UNCHANGED calls
  /\ \/ Create(<<Line("p1", 1), Line("p2", 2)>>, "b1")
     \/ \E orderId \in 1 .. MaxOrdersPay,
           gateway \in PaymentGateway, gatewayOk \in BOOLEAN :
          InitializePayment(orderId, "b1", gateway, gatewayOk)
     \/ \E reference \in 1 .. MaxPaymentsPay,
           answer \in {"success", "failed", "error"} :
          VerifyPayment(reference, answer)
     \/ \E event \in WebhookEvents, reference \in 1 .. MaxPaymentsPay :
          HandlePayStackWebhook(event, reference, TRUE)
     \/ \E paymentId \in 1 .. MaxPaymentsPay, gatewayOk \in BOOLEAN :
          RefundPayment(paymentId, gatewayOk)
     \/ Tick
  /\ Bounded(MaxOrdersPay, MaxPaymentsPay)

SpecRefunds == Init /\ [][NextRefunds]_vars

(* webhooks as they arrive: a body and a signature header *)
NextWebhook ==
  /\ UNCHANGED calls
  /\ \/ Create(<<Line("p1", 1)>>, "b1")
     \/ \E orderId \in 1 .. MaxOrdersPay, gatewayOk \in BOOLEAN :
          InitializePayment(orderId, "b1", "paystack", gatewayOk)
     \/ \E reference \in 1 .. MaxPaymentsPay :
          VerifyPayment(reference, "success")
     \/ \E rawBody \in RawBodies, signature \in Signatures :
          paystackWebhook(rawBody, signature)
     \/ Tick
  /\ Bounded(MaxOrdersPay, MaxPaymentsPay)

SpecWebhook == Init /\ [][NextWebhook]_vars

(* stock: several orders on one product, paid through the webhook and *)
(* cancelled; every order has one payment at most                      *)
NextStock ==
  /\ UNCHANGED calls
  /\ \/ \E quantity \in {1, InitQty} : Create(<<Line("p1", quantity)>>, "b1")
     \/ \E orderId \in DOMAIN orders :
          UpdateStatus(orderId, "a1", "admin", "CANCELLED")
     \/ \E orderId \in DOMAIN orders :
          InitializePayment(orderId, orders[orderId].buyerId, "paystack", TRUE)
     \/ \E reference \in DOMAIN payments :
          HandlePayStackWebhook("charge.success", reference, TRUE)
  /\ Bounded(MaxOrdersStock, MaxOrdersStock)

SpecStock == Init /\ [][NextStock]_vars

(* two buyers order the same product and pay through the webhook *)
NextOversell ==
  /\ UNCHANGED calls
  /\ \/ \E quantity \in {1, InitQty}, buyerId \in {"b1", "s2"} :
          Create(<<Line("p1", quantity)>>, buyerId)
     \/ \E orderId \in DOMAIN orders :
          InitializePayment(orderId, orders[orderId].buyerId, "paystack", TRUE)
     \/ \E reference \in DOMAIN payments :
          HandlePayStackWebhook("charge.success", reference, TRUE)
  /\ Bounded(MaxOrdersStock, MaxOrdersStock)

SpecOversell == Init /\ [][NextOversell]_vars

(* a verification and webhooks in flight together: the handlers advance *)
(* one await at a time; slot 1 is the verifyPayment request, the other  *)
(* slots are deliveries of the charge.success webhook                   *)
NextPayRace ==
  /\ \/ /\ \E quantity \in {1, InitQty} :
               Create(<<Line("p1", quantity)>>, "b1")
          /\ UNCHANGED calls
     \/ /\ \E orderId \in DOMAIN orders :
               InitializePayment(orderId, orders[orderId].buyerId, "paystack",
                                 TRUE)
          /\ UNCHANGED calls
     \/ \E reference \in DOMAIN payments :
          \/ VerifyPaymentRead(1, reference)
          \/ \E c \in 2 .. MaxCalls : HandleSuccessfulPaymentRead(c, reference)
     \/ \E c \in 1 .. MaxCalls :
          \/ \E answer \in {"success", "error"} :
               VerifyPaymentAnswer(c, answer)
          \/ HandleSuccessfulPaymentProcess(c)
          \/ UpdateProductRead(c)
          \/ UpdateProductWrite(c)
  /\ Bounded(MaxOrdersStock, MaxOrdersStock)

SpecPayRace == Init /\ [][NextPayRace]_vars

(* status requests of the administrator in flight together on one order *)
NextStatusRace ==
  /\ \/ Create(<<Line("p1", 1)>>, "b1") /\ UNCHANGED calls
     \/ \E c \in 1 .. MaxCalls, orderId \in DOMAIN orders,
           newStatus \in OrderStatus :
          /\ Len(orders[orderId].statusHistory) < MaxHistory
          /\ UpdateStatusRead(c, orderId, "a1", "admin", newStatus)
     \/ \E c \in 1 .. MaxCalls :
          \/ UpdateStatusCancel(c)
          \/ UpdateStatusSave(c)
  /\ Bounded(MaxOrders, MaxPayments)

SpecStatusRace == Init /\ [][NextStatusRace]_vars

(* initialisations of the buyer in flight together *)
NextInitRace ==
  /\ \/ Create(<<Line("p1", 1)>>, "b1") /\ UNCHANGED calls
     \/ \E c \in 1 .. MaxCalls, orderId \in DOMAIN orders :
          InitializePaymentRead(c, orderId, orders[orderId].buyerId)
     \/ \E c \in 1 .. MaxCalls, gatewayOk \in BOOLEAN :
          InitializePaymentSave(c, gatewayOk)
     \/ Tick /\ UNCHANGED calls
  /\ Bounded(MaxOrdersStock, MaxOrdersStock)

SpecInitRace == Init /\ [][NextInitRace]_vars

(* one request, a calculation or a creation, against every catalogue:   *)
(* carts of up to MaxLines lines over the products and a missing one,  *)
(* sent by a buyer or by the seller of p1                              *)
CartLines ==
  {Line(p, q) : p \in ProductIds \cup {MissingProduct}, q \in 1 .. InitQty}

Carts == UNION {[1 .. n -> CartLines] : n \in 0 .. MaxLines}

NextCart ==
  /\ UNCHANGED calls
  /\ res.op = "init"
  /\ \E items \in Carts, buyerId \in {"b1", "s1"} :
       \/ CalculateOrder(items, buyerId)
       \/ Create(items, buyerId)

SpecCart == InitCart /\ [][NextCart]_vars

(* checkout: the order and its payment are asked for in one request, the *)
(* payment is asked for again afterwards, the gateway answers and calls  *)
(* back                                                                  *)
NextCheckout ==
  /\ UNCHANGED calls
  /\ \/ \E quantity \in 1 .. InitQty, paymentMethod \in PaymentMethods,
           gatewayOk \in BOOLEAN :
          CreateOrder(<<Line("p1", quantity)>>, "b1", paymentMethod, gatewayOk)
     \/ \E orderId \in 1 .. MaxOrders, userId \in {"b1", "s1"},
           gateway \in PaymentGateway, gatewayOk \in BOOLEAN :
          InitializePayment(orderId, userId, gateway, gatewayOk)
     \/ \E reference \in 1 .. MaxPayments,
           answer \in {"success", "failed", "error"} :
          VerifyPayment(reference, answer)
     \/ \E event \in WebhookEvents, reference \in 1 .. MaxPayments,
           isValidSignature \in BOOLEAN :
          HandlePayStackWebhook(event, reference, isValidSignature)
     \/ Tick
  /\ Bounded(MaxOrders, MaxPayments)

SpecCheckout == Init /\ [][NextCheckout]_vars

(* ============================== claims ================================= *)
\* the transition table of the order state machine
LegalEdges ==
  {<<"PENDING", "CONFIRMED">>, <<"PENDING", "CANCELLED">>,
   <<"CONFIRMED", "PROCESSING">>, <<"CONFIRMED", "CANCELLED">>,
   <<"PROCESSING", "SHIPPED">>, <<"PROCESSING", "CANCELLED">>,
   <<"SHIPPED", "DELIVERED">>, <<"DELIVERED", "REFUNDED">>}

\* the target a role may set, by the authorization rule
RoleAllows(order, actor, newStatus) ==
  \/ actor[2] = "admin"
  \/ order.buyerId = actor[1] /\ newStatus = "CANCELLED"
  \/ /\ actor[1] \in order.sellerIds
     /\ newStatus \in {"CONFIRMED", "PROCESSING", "SHIPPED"}

\* C1: an administrator's updateStatus along a pair that is not an edge of
\* the transition table fails with a Validation (bad request) error and
\* leaves the order, its items and all product stock unchanged.  Stated by
\* contraposition: a step that is not such a refusal is not the
\* administrator's request along an illegal pair.
C1_TransitionClosure ==
  [][LET refused == /\ res'.outcome = "BadRequest"
                    /\ orders' = orders
                    /\ orderItems' = orderItems
                    /\ products' = products
     IN \A orderId \in DOMAIN orders, newStatus \in OrderStatus :
          (/\ <<orders[orderId].status, newStatus>> \notin LegalEdges
           /\ ~refused)
          => ~UpdateStatus(orderId, "a1", "admin", newStatus)]_vars

\* an administrator was refused on a delivered order
C1_Witness ==
  /\ res.op = "updateStatus" /\ res.user = "a1" /\ res.outcome = "BadRequest"
  /\ \E o \in DOMAIN orders :
       orders[o].status = "DELIVERED" /\ Len(orders[o].statusHistory) = 5

\* C2: once an order is CANCELLED or REFUNDED, no operation changes its
\* status again.
C2_TerminalStatus ==
  [][\A o \in DOMAIN orders :
       orders[o].status \in {"CANCELLED", "REFUNDED"}
       => orders'[o].status = orders[o].status]_vars

\* a payment was confirmed on an order that was already cancelled
C2_Witness ==
  \E o \in DOMAIN orders :
    LET h == orders[o].statusHistory
    IN /\ orders[o].status = "CANCELLED"
       /\ h[Len(h)] = "Payment confirmed"
       /\ h[Len(h) - 1] = "Status changed to CANCELLED"

\* C3: for a legal transition, updateStatus succeeds exactly when the role
\* of the caller allows the target: an administrator always, the buyer for
\* CANCELLED, a seller of the order for CONFIRMED, PROCESSING or SHIPPED.
C3_RoleRule ==
  [][\A orderId \in DOMAIN orders, actor \in Actors,
        newStatus \in OrderStatus :
       (/\ <<orders[orderId].status, newStatus>> \in LegalEdges
        /\ UpdateStatus(orderId, actor[1], actor[2], newStatus))
       => (res'.outcome = "ok"
           <=> RoleAllows(orders[orderId], actor, newStatus))]_vars

\* C4: a caller who is not an administrator and asks for a target the role
\* may not set gets a Forbidden error, and the order is unchanged.
C4_ForbiddenNotValidation ==
  [][\A orderId \in DOMAIN orders, actor \in Actors,
        newStatus \in OrderStatus :
       (/\ ~RoleAllows(orders[orderId], actor, newStatus)
        /\ UpdateStatus(orderId, actor[1], actor[2], newStatus))
       => /\ res'.outcome = "Forbidden"
          /\ orders' = orders
          /\ orderItems' = orderItems
          /\ products' = products]_vars

\* the indices of the items of order orderId that are on product productId
linesOn(orderId, productId) ==
  {i \in DOMAIN orderItems :
     orderItems[i].orderId = orderId /\ orderItems[i].productId = productId}

RECURSIVE sumQuantity(_)
sumQuantity(S) ==
  IF S = {} THEN 0
  ELSE LET i == CHOOSE j \in S : TRUE
       IN orderItems[i].quantity + sumQuantity(S \ {i})

\* the units of product productId that order orderId asks for
quantityOrdered(orderId, productId) == sumQuantity(linesOn(orderId, productId))

\* C5 as stated: a successful cancellation of an order whose confirmation
\* took every quantity in full puts every affected product back to the
\* quantity it had just before that confirmation, with sold = false.
C5_BackToStockBeforeConfirmation ==
  [][\A o \in DOMAIN orders :
       (/\ hist[o].confirmed /\ hist[o].full
        /\ UpdateStatus(o, "a1", "admin", "CANCELLED")
        /\ res'.outcome = "ok")
       => \A p \in ProductIds :
            quantityOrdered(o, p) > 0
            => /\ products'[p].quantity = hist[o].stock[p]
               /\ products'[p].sold = FALSE]_vars

\* C5: a successful cancellation of an order whose payment was confirmed
\* adds the quantity of each item to the current stock of its product and
\* sets sold = false; products the order does not touch keep their stock.
\* The stock is the one before the confirmation when the confirmation took
\* every quantity in full and nothing changed the stock since.
C5_CancelAddsQuantityBack ==
  [][\A o \in DOMAIN orders :
       (/\ hist[o].confirmed
        /\ UpdateStatus(o, "a1", "admin", "CANCELLED")
        /\ res'.outcome = "ok")
       => \A p \in ProductIds :
            LET Q == quantityOrdered(o, p)
            IN IF Q > 0
               THEN /\ products'[p].quantity = products[p].quantity + Q
                    /\ products'[p].sold = FALSE
                    /\ (hist[o].full /\ products[p].quantity = hist[o].after[p])
                       => products'[p].quantity = hist[o].stock[p]
               ELSE products'[p] = products[p]]_vars

\* a paid order was cancelled after another order took from the same stock
C5_Witness ==
  /\ res.op = "updateStatus" /\ res.outcome = "ok"
  /\ \E o \in DOMAIN orders :
       /\ hist[o].confirmed /\ hist[o].full
       /\ orders[o].status = "CANCELLED"
       /\ orders[o].paymentStatus = "COMPLETED"
       /\ products["p1"].quantity # hist[o].stock["p1"]
       /\ ~products["p1"].sold

\* C6: when the gateway reports success for a PENDING payment (verifyPayment
\* or a charge.success webhook), the order gets paymentStatus COMPLETED, goes
\* from PENDING to CONFIRMED and otherwise keeps its status, every item of
\* the order is 'confirmed', and every product of the order loses the ordered
\* quantity, pinned at 0 with sold = true exactly when the difference is
\* zero or below.
C6_ConfirmationEffects ==
  [][\A reference \in DOMAIN payments :
       (/\ payments[reference].status = "PENDING"
        /\ \/ VerifyPayment(reference, "success")
           \/ HandlePayStackWebhook("charge.success", reference, TRUE))
       => LET o == payments[reference].orderId
          IN /\ payments'[reference].status = "COMPLETED"
             /\ orders'[o].paymentStatus = "COMPLETED"
             /\ orders'[o].status =
                  IF orders[o].status = "PENDING" THEN "CONFIRMED"
                  ELSE orders[o].status
             /\ \A i \in DOMAIN orderItems :
                  orderItems[i].orderId = o
                  => orderItems'[i].itemStatus = "confirmed"
             /\ \A p \in ProductIds :
                  LET Q == quantityOrdered(o, p)
                      reduced == products[p].quantity - Q
                  IN IF Q = 0 THEN products'[p] = products[p]
                     ELSE IF reduced <= 0
                     THEN products'[p].sold /\ products'[p].quantity = 0
                     ELSE /\ ~products'[p].sold
                          /\ products'[p].quantity = reduced]_vars

\* a verified payment left one product with stock and sold the other out
C6_Witness ==
  /\ res.op = "verifyPayment" /\ res.outcome = "ok" /\ res.gateway
  /\ res.data.status = "COMPLETED"
  /\ orders[res.data.orderId].status = "CONFIRMED"
  /\ products["p1"].quantity = InitQty - 1 /\ ~products["p1"].sold
  /\ products["p2"].quantity = 0 /\ products["p2"].sold

\* C7: verifyPayment on a COMPLETED payment returns the stored result
\* without asking the gateway, writes nothing to payments, orders, order
\* items or products, and returns what the previous verification of the
\* same reference returned.
C7_IdempotentVerification ==
  [][\A reference \in DOMAIN payments,
        answer \in {"success", "failed", "error"} :
       (/\ payments[reference].status = "COMPLETED"
        /\ VerifyPayment(reference, answer))
       => /\ res'.outcome = "ok"
          /\ res'.gateway = FALSE
          /\ res'.data = verifyData(payments[reference])
          /\ db' = db
          /\ (/\ res.op = "verifyPayment" /\ res.outcome = "ok"
              /\ res.data.reference = payments[reference].reference)
             => res'.data = res.data]_vars

\* a completed payment was verified a second time
C7_Witness ==
  /\ res.op = "verifyPayment" /\ res.outcome = "ok" /\ res.gateway = FALSE
  /\ res.data.status = "COMPLETED"
  /\ payments[res.data.reference].status = "COMPLETED"

\* C8: every order has at most one payment in status COMPLETED.
C8_AtMostOneCompleted ==
  \A i, j \in DOMAIN payments :
    (/\ payments[i].orderId = payments[j].orderId
     /\ payments[i].status = "COMPLETED"
     /\ payments[j].status = "COMPLETED")
    => i = j

\* the fresh PENDING payments of an order
freshPending(orderId) ==
  {i \in DOMAIN payments :
     /\ payments[i].orderId = orderId
     /\ payments[i].status = "PENDING"
     /\ clock[i] < ThirtyMinutes}

\* C9: initializePayment by the buyer of an unpaid order that has a PENDING
\* payment less than 30 minutes old returns the reference, authorization URL,
\* amount and currency of that payment, does not ask the gateway and leaves
\* the payments as they are.
C9_FreshPendingReturned ==
  [][\A o \in DOMAIN orders, gateway \in PaymentGateway,
        gatewayOk \in BOOLEAN :
       (/\ orders[o].paymentStatus # "COMPLETED"
        /\ freshPending(o) # {}
        /\ InitializePayment(o, orders[o].buyerId, gateway, gatewayOk))
       => /\ res'.outcome = "ok"
          /\ res'.gateway = FALSE
          /\ payments' = payments
          /\ \E i \in freshPending(o) :
               /\ res'.data.reference = payments[i].reference
               /\ res'.data.authorizationUrl = payments[i].authorizationUrl
               /\ res'.data.amount = payments[i].amount
               /\ res'.data.currency = payments[i].currency]_vars

\* a payment that is fifteen minutes old was handed out again
C9_Witness ==
  /\ res.op = "initializePayment" /\ res.outcome = "ok"
  /\ res.gateway = FALSE
  /\ \E i \in DOMAIN payments :
       /\ payments[i].status = "PENDING"
       /\ clock[i] = ThirtyMinutes - 1
       /\ res.data.reference = payments[i].reference

\* payment i goes from PENDING to FAILED with reason 'Payment expired'
expires(i) ==
  /\ payments[i].status = "PENDING"
  /\ payments'[i].status = "FAILED"
  /\ payments'[i].failureReason = "Payment expired"

\* the step is initializePayment for the order of payment i
initializesOrderOf(i, gateway, gatewayOk) ==
  \E userId \in {"b1", "s1"} :
    InitializePayment(payments[i].orderId, userId, gateway, gatewayOk)

\* the step appends a PENDING payment for the order of payment i, with a
\* reference no payment had
supersedes(i) ==
  /\ Len(payments') = Len(payments) + 1
  /\ LET new == payments'[Len(payments')]
     IN /\ new.status = "PENDING"
        /\ new.orderId = payments[i].orderId
        /\ \A j \in DOMAIN payments : payments[j].reference # new.reference

\* C10 as stated: a PENDING payment is set to FAILED / 'Payment expired'
\* only by an initializePayment for its order made when it is 30 minutes
\* old or more, and that call creates a new PENDING payment with another
\* reference; the passing of time alone changes no payment.
C10_ExpiryAlwaysSupersedes ==
  [][/\ Tick => payments' = payments
     /\ \A i \in DOMAIN payments :
          expires(i)
          => /\ clock[i] >= ThirtyMinutes
             /\ \E gateway \in PaymentGateway, gatewayOk \in BOOLEAN :
                  initializesOrderOf(i, gateway, gatewayOk)
             /\ supersedes(i)]_vars

\* C10: a PENDING payment is set to FAILED / 'Payment expired' only by an
\* initializePayment for its order made when it is 30 minutes old or more;
\* that call creates a new PENDING payment with another reference when the
\* gateway is paystack and its initialisation succeeds, and otherwise fails
\* with a Validation error and creates no payment; the passing of time
\* alone changes no payment.
C10_LazyExpiry ==
  [][/\ Tick => payments' = payments
     /\ \A i \in DOMAIN payments :
          expires(i)
          => /\ clock[i] >= ThirtyMinutes
             /\ \E gateway \in PaymentGateway, gatewayOk \in BOOLEAN :
                  /\ initializesOrderOf(i, gateway, gatewayOk)
                  /\ IF gateway = "paystack" /\ gatewayOk
                     THEN res'.outcome = "ok" /\ supersedes(i)
                     ELSE /\ res'.outcome = "BadRequest"
                          /\ Len(payments') = Len(payments)]_vars

\* an expired payment was superseded by a new one for the same order
C10_Witness ==
  /\ res.op = "initializePayment" /\ res.outcome = "ok" /\ res.gateway
  /\ \E i, j \in DOMAIN payments :
       /\ payments[i].status = "FAILED"
       /\ payments[i].failureReason = "Payment expired"
       /\ payments[j].status = "PENDING"
       /\ payments[j].orderId = payments[i].orderId
       /\ res.data.reference = payments[j].reference

countedSellers(items) ==
  {items[i].sellerId : i \in {j \in DOMAIN items : items[j].available}}

aggregates(r) ==
  r.totalAmount = r.subtotal + r.totalShippingCost + r.totalServiceFee
                  + r.totalTaxes - r.couponDiscount

\* C12: every result of calculateOrder and every persisted order has
\* totalAmount = subtotal + totalShippingCost + totalServiceFee + totalTaxes
\* - couponDiscount, and a sellerCount equal to the number of distinct
\* sellers among the items counted in its totals.
C12_AggregationInvariant ==
  /\ res.op = "calculate" =>
       LET calculation == res.data.calculation
       IN /\ aggregates(calculation)
          /\ calculation.sellerCount
               = Cardinality(countedSellers(calculation.items))
  /\ \A orderId \in DOMAIN orders :
       /\ aggregates(orders[orderId])
       /\ orders[orderId].sellerCount
            = Cardinality(countedSellers(itemsOfOrder(orderItems, orderId)))

RECURSIVE sumOver(_, _)
sumOver(F(_), items) ==
  IF items = <<>> THEN 0 ELSE F(Head(items)) + sumOver(F, Tail(items))

isAvailable(item) == item.available
totalPriceOf(item) == item.totalPrice
shippingCostOf(item) == item.shippingCost
itemServiceFeeOf(item) == item.itemServiceFee
itemTaxesOf(item) == item.itemTaxes
itemTotalOf(item) == item.itemTotal
quantityOf(item) == item.quantity

\* C13: in a result of calculateOrder the totals, itemCount and sellerCount
\* are those of the available items alone: an unavailable item adds nothing
\* to any of them, and a seller with only unavailable items is not counted.
C13_UnavailableNotCounted ==
  res.op = "calculate" =>
    LET calculation == res.data.calculation
        kept == SelectSeq(calculation.items, isAvailable)
    IN /\ calculation.subtotal = sumOver(totalPriceOf, kept)
       /\ calculation.totalShippingCost = sumOver(shippingCostOf, kept)
       /\ calculation.totalServiceFee = sumOver(itemServiceFeeOf, kept)
       /\ calculation.totalTaxes = sumOver(itemTaxesOf, kept)
       /\ calculation.totalAmount = sumOver(itemTotalOf, kept)
       /\ calculation.itemCount = sumOver(quantityOf, kept)
       /\ calculation.sellerCount
            = Cardinality({kept[i].sellerId : i \in DOMAIN kept})

revenueOf(payout) == payout.revenue
serviceFeeOf(payout) == payout.serviceFee

\* C14 as stated: for every created order the sum over its sellerPayouts of
\* revenue + serviceFee equals the order's subtotal + totalServiceFee.
C14_PayoutsSumToSubtotalPlusFee ==
  \A orderId \in DOMAIN orders :
    LET order == orders[orderId]
    IN sumOver(revenueOf, order.sellerPayouts)
         + sumOver(serviceFeeOf, order.sellerPayouts)
       = order.subtotal + order.totalServiceFee

\* C14 amended: for every created order the sum over its sellerPayouts of
\* revenue + serviceFee equals the order's subtotal, the fees of the payouts
\* sum to totalServiceFee and the revenues to subtotal - totalServiceFee.
C14_PayoutsSumToSubtotal ==
  \A orderId \in DOMAIN orders :
    LET order == orders[orderId]
    IN /\ sumOver(revenueOf, order.sellerPayouts)
            + sumOver(serviceFeeOf, order.sellerPayouts)
          = order.subtotal
       /\ sumOver(serviceFeeOf, order.sellerPayouts) = order.totalServiceFee
       /\ sumOver(revenueOf, order.sellerPayouts)
          = order.subtotal - order.totalServiceFee

\* an order of two sellers that carries a service fee
C14_Witness ==
  \E orderId \in DOMAIN orders :
    /\ Len(orders[orderId].sellerPayouts) = 2
    /\ orders[orderId].totalServiceFee > 0
    /\ \A i \in 1 .. 2 : orders[orderId].sellerPayouts[i].serviceFee > 0

\* a requested line names no product
notFound(line) == line.productId \notin DOMAIN products

\* a requested line cannot be bought by the buyer from the catalogue
unavailable(line, buyerId) ==
  \/ notFound(line)
  \/ products[line.productId].sold
  \/ products[line.productId].quantity < line.quantity
  \/ products[line.productId].sellerId = buyerId

someUnavailable(items, buyerId) ==
  \E i \in DOMAIN items : unavailable(items[i], buyerId)

allUnavailable(items, buyerId) ==
  \A i \in DOMAIN items : unavailable(items[i], buyerId)

hasErrors(items) == \E i \in DOMAIN items : notFound(items[i])

\* C15 as stated: create fails with a validation error when the calculation
\* has errors or every requested item is unavailable, with a conflict when
\* some but not all requested items are unavailable, and a failing create
\* persists no order, no order item and changes no product.
C15_AllUnavailableIsValidation ==
  [][res'.op = "create" =>
       LET items == res'.data.request
           buyerId == res'.user
       IN /\ (hasErrors(items) \/ allUnavailable(items, buyerId))
               => res'.outcome = "BadRequest"
          /\ (/\ ~hasErrors(items)
              /\ someUnavailable(items, buyerId)
              /\ ~allUnavailable(items, buyerId))
               => res'.outcome = "Conflict"
          /\ res'.outcome # "ok"
               => UNCHANGED <<products, orders, orderItems>>]_vars

\* C15 amended: create fails with a validation error when the calculation
\* has errors or the request has no item, with a conflict when there is no
\* error and at least one requested item, possibly every one, is
\* unavailable, and succeeds otherwise; a failing create persists no order,
\* no order item and changes no product.
C15_CreateFailures ==
  [][res'.op = "create" =>
       LET items == res'.data.request
           buyerId == res'.user
       IN /\ res'.outcome =
               IF hasErrors(items) \/ items = <<>> THEN "BadRequest"
               ELSE IF someUnavailable(items, buyerId) THEN "Conflict"
               ELSE "ok"
          /\ res'.outcome # "ok"
               => UNCHANGED <<products, orders, orderItems>>]_vars

\* a create of existing products, none of which can be bought, was refused
\* with a conflict
C15_Witness ==
  /\ res.op = "create"
  /\ res.outcome = "Conflict"
  /\ Len(res.data.request) = MaxLines
  /\ ~hasErrors(res.data.request)
  /\ allUnavailable(res.data.request, res.user)
  /\ orders = <<>> /\ orderItems = <<>>

\* the items of a result that the buyer does not sell and that are available
boughtFromOthers(calculation, buyerId) ==
  LET counted(item) == item.available /\ item.sellerId # buyerId
  IN SelectSeq(calculation.items, counted)

\* the totals of a result are those of the given items
totalsAreOf(calculation, items) ==
  /\ calculation.subtotal = sumOver(totalPriceOf, items)
  /\ calculation.totalShippingCost = sumOver(shippingCostOf, items)
  /\ calculation.totalServiceFee = sumOver(itemServiceFeeOf, items)
  /\ calculation.totalTaxes = sumOver(itemTaxesOf, items)
  /\ calculation.totalAmount = sumOver(itemTotalOf, items)
  /\ calculation.itemCount = sumOver(quantityOf, items)

\* the items of a result whose seller is the buyer
ownItems(calculation, buyerId) ==
  {i \in DOMAIN calculation.items : calculation.items[i].sellerId = buyerId}

\* C16 as stated: every item of a calculation whose seller is the buyer is
\* returned unavailable with the message 'You cannot buy your own product',
\* whatever the sold flag and the quantity on hand of the product, is listed
\* in unavailableItems and adds nothing to the totals.
C16_OwnProductMessageAlways ==
  res.op = "calculate" =>
    LET calculation == res.data.calculation
    IN /\ \A i \in ownItems(calculation, res.user) :
            LET item == calculation.items[i]
            IN /\ item.available = FALSE
               /\ item.availabilityMessage = "You cannot buy your own product"
               /\ \E k \in DOMAIN calculation.unavailableItems :
                    calculation.unavailableItems[k] = item.productId
       /\ totalsAreOf(calculation, boughtFromOthers(calculation, res.user))

\* C16 amended: every item of a calculation whose seller is the buyer is
\* returned unavailable, is listed in unavailableItems and adds nothing to
\* the totals, whatever the sold flag and the quantity on hand; its message
\* is 'You cannot buy your own product' when the product is unsold and has
\* the requested quantity, 'Product is no longer available' when it is sold
\* and 'Only N items available' when it is unsold and short.
C16_OwnProductUnavailable ==
  res.op = "calculate" =>
    LET calculation == res.data.calculation
    IN /\ \A i \in ownItems(calculation, res.user) :
            LET item == calculation.items[i]
                product == products[item.productId]
            IN /\ item.available = FALSE
               /\ item.availabilityMessage =
                    IF product.sold THEN "Product is no longer available"
                    ELSE IF product.quantity < item.quantity
                         THEN "Only N items available"
                    ELSE "You cannot buy your own product"
               /\ \E k \in DOMAIN calculation.unavailableItems :
                    calculation.unavailableItems[k] = item.productId
       /\ totalsAreOf(calculation, boughtFromOthers(calculation, res.user))

\* a seller asked for a product of their own that is in stock together with
\* a product of another seller that was counted
C16_Witness ==
  /\ res.op = "calculate"
  /\ \E i \in ownItems(res.data.calculation, res.user) :
       res.data.calculation.items[i].availabilityMessage
         = "You cannot buy your own product"
  /\ res.data.calculation.subtotal > 0

\* f is num / den rounded to the nearest integer, a half going up
roundsHalfUp(f, num, den) ==
  /\ 2 * den * f <= 2 * num + den
  /\ 2 * num + den < 2 * den * (f + 1)

\* the pricing of a calculated line or order item of the given product
pricedFrom(item, product) ==
  /\ item.unitPrice = product.sellingPrice
  /\ item.totalPrice = item.unitPrice * item.quantity
  /\ item.shippingCost = product.shipping * item.quantity
  /\ roundsHalfUp(item.itemServiceFee, item.totalPrice * ServiceFeeRate, 1000)
  /\ roundsHalfUp(item.itemTaxes,
                  (item.totalPrice + item.itemServiceFee) * TaxRate, 1000)
  /\ item.itemTotal = item.totalPrice + item.shippingCost
                      + item.itemServiceFee + item.itemTaxes

\* a line of two units at 25000 with 1250 of shipping a unit
isScenarioLine(item) ==
  /\ item.unitPrice = 25000
  /\ item.quantity = 2
  /\ item.shippingCost = 2 * 1250

C18_BuyerCancels ==
  [][\A orderId \in DOMAIN orders :
       CancelOrder(orderId, orders[orderId].buyerId)
       => IF orders[orderId].status \in {"PENDING", "CONFIRMED", "PROCESSING"}
          THEN /\ res'.outcome = "ok"
               /\ orders'[orderId].status = "CANCELLED"
          ELSE /\ res'.outcome = "BadRequest"
               /\ db' = db]_vars

\* the payment of the request cannot be initialised: the method is not
\* served by a gateway of the service, or the gateway refuses
initialisationFails(paymentMethod, gatewayOk) ==
  paymentMethod \in {"flutterwave", "stripe"} \/ ~gatewayOk

C20_RefundOutcomes ==
  [][\A paymentId \in DOMAIN payments, gatewayOk \in BOOLEAN :
       RefundPayment(paymentId, gatewayOk)
       => /\ payments[paymentId].refunded
               => /\ res'.outcome = "Conflict"
                  /\ payments' = payments
          /\ (/\ ~payments[paymentId].refunded
              /\ payments[paymentId].status # "COMPLETED")
               => res'.outcome = "BadRequest"
          /\ res'.outcome = "ok"
               => /\ payments'[paymentId].refunded
                  /\ payments'[paymentId].status = "REFUNDED"]_vars

\* the changes of status a payment goes through
PaymentEdges ==
  {<<"PENDING", "COMPLETED">>, <<"PENDING", "FAILED">>,
   <<"COMPLETED", "REFUNDED">>}

\* C22: the status of a payment only moves PENDING -> COMPLETED, PENDING ->
\* FAILED or COMPLETED -> REFUNDED: a FAILED or REFUNDED payment is never made
\* COMPLETED by a later verification or webhook, and the order of such a
\* payment is not confirmed again.
C22_PaymentLifecycle ==
  [][\A i \in DOMAIN payments :
       /\ payments'[i].status # payments[i].status
            => <<payments[i].status, payments'[i].status>> \in PaymentEdges
       /\ payments[i].status \in {"FAILED", "REFUNDED"}
            => orders'[payments[i].orderId] = orders[payments[i].orderId]]_vars

\* the orders whose history the step changes
rewritten == {o \in DOMAIN orders :
                orders'[o].statusHistory # orders[o].statusHistory}

\* the history of order o got exactly one entry more, at its end
appendsOne(o) ==
  /\ Len(orders'[o].statusHistory) = Len(orders[o].statusHistory) + 1
  /\ SubSeq(orders'[o].statusHistory, 1, Len(orders[o].statusHistory))
       = orders[o].statusHistory

\* the step completes a payment, which confirms the payment of its order
completes(i) ==
  payments[i].status # "COMPLETED" /\ payments'[i].status = "COMPLETED"

\* C23: statusHistory is append-only: a successful updateStatus (or
\* cancelOrder) and a confirmPayment each append exactly one entry to the
\* history of their order, a failed operation and every other operation
\* append none, so every earlier history is a prefix of the later ones.
C23_HistoryAppendOnly ==
  [][/\ \A o \in rewritten : appendsOne(o)
     /\ Cardinality(rewritten) <= 1
     /\ res'.op \in {"updateStatus", "cancelOrder"}
          => IF res'.outcome = "ok"
             THEN \E o \in rewritten :
                    orders'[o].statusHistory[Len(orders'[o].statusHistory)]
                      = "Status changed to " \o orders'[o].status
             ELSE rewritten = {}
     /\ res'.op \notin {"updateStatus", "cancelOrder"}
          => rewritten = {payments[i].orderId :
                            i \in {j \in DOMAIN payments : completes(j)}}
     /\ \A i \in DOMAIN payments :
          completes(i) =>
            LET h == orders'[payments[i].orderId].statusHistory
            IN h[Len(h)] = "Payment confirmed"]_vars

\* an order that was created, paid and moved on twice holds its four entries
\* in that order, and the last request on it was refused
C23_Witness ==
  /\ res.op = "updateStatus" /\ res.outcome = "BadRequest"
  /\ \E o \in DOMAIN orders :
       orders[o].statusHistory =
         <<"Order created", "Payment confirmed",
           "Status changed to PROCESSING", "Status changed to SHIPPED">>

\* the units of product productId asked for by the orders of the set
RECURSIVE quantityOrderedBy(_, _)
quantityOrderedBy(S, productId) ==
  IF S = {} THEN 0
  ELSE LET o == CHOOSE x \in S : TRUE
       IN quantityOrdered(o, productId) + quantityOrderedBy(S \ {o}, productId)

\* C24: create leaves the quantity and the sold flag of every product as
\* they are and looks at the stock on hand alone: it succeeds exactly when
\* every line is available against the catalogue, whatever the orders
\* already placed on the product.  Two buyers can therefore both order, pay
\* and have CONFIRMED more units together than the product has.
C24_CreateReservesNothing ==
  [][res'.op = "create" =>
       /\ products' = products
       /\ res'.outcome = "ok"
            <=> /\ res'.data.request # <<>>
                /\ ~someUnavailable(res'.data.request, res'.user)]_vars

\* two buyers hold paid, CONFIRMED orders on p1 for more units than p1 had
C24_Witness ==
  \E o1, o2 \in DOMAIN orders :
    /\ orders[o1].buyerId # orders[o2].buyerId
    /\ \A o \in {o1, o2} :
         /\ orders[o].status = "CONFIRMED"
         /\ orders[o].paymentStatus = "COMPLETED"
    /\ quantityOrderedBy({o1, o2}, "p1") > InitQty

\* C26: the quantity on hand of a product never exceeds the quantity it had
\* before any order was placed on it, whatever orders are created, paid and
\* cancelled; a cancellation of an order that was never paid leaves the
\* quantity as it is.
C26_StockNeverAboveInitial ==
  \A p \in ProductIds : products[p].quantity <= InitProducts[p].quantity

\* C27: once an order is CANCELLED, a payment of the order that succeeds
\* afterwards takes no stock and leaves the items 'cancelled': in every state
\* all items of a CANCELLED order are 'cancelled'.
C27_CancelledItemsStayCancelled ==
  \A i \in DOMAIN orderItems :
    orders[orderItems[i].orderId].status = "CANCELLED"
    => orderItems[i].itemStatus = "cancelled"

\* the units of product productId a request asks for over all its lines
RECURSIVE quantityRequested(_, _)
quantityRequested(items, productId) ==
  IF items = <<>> THEN 0
  ELSE (IF Head(items).productId = productId THEN Head(items).quantity ELSE 0)
       + quantityRequested(Tail(items), productId)

\* C30: create succeeds only if, for every product of the request, the
\* quantity asked for over all the lines that name the product is at most
\* the quantity on hand: a request that lists a product on several lines is
\* not accepted for more units than are in stock.
C30_LinesOfOneProductAddUp ==
  (res.op = "create" /\ res.outcome = "ok") =>
    \A p \in ProductIds :
      quantityRequested(res.data.request, p) <= products[p].quantity

\* the units of product p asked for by all the orders
quantityOrderedInAll(p) == quantityOrderedBy(DOMAIN orders, p)

C25_StockNotNegative ==
  \A p \in ProductIds : products[p].quantity >= 0

\* C28: for any interleaving of two updateStatus requests on the same order,
\* every change of the order's persisted status is an edge of the transition
\* table, so that an order persisted as CANCELLED is never afterwards
\* persisted as CONFIRMED.
C28_PersistedStatusFollowsEdges ==
  [][\A o \in DOMAIN orders :
       orders'[o].status # orders[o].status
         => <<orders[o].status, orders'[o].status>> \in LegalEdges]_vars

\* the PENDING payments of order o
pendingOf(o) ==
  {i \in DOMAIN payments :
     payments[i].orderId = o /\ payments[i].status = "PENDING"}

\* C29: in every reachable state, including interleaved initializePayment
\* calls for the same order, at most one Payment of an order has status
\* PENDING.
C29_OnePendingPerOrder ==
  \A o \in DOMAIN orders : Cardinality(pendingOf(o)) <= 1
====
